---- MODULE Spec2Model ----
(***************************************************************************)
(* A model of the p2p core of go-seele: p2p/server.go (Server.run,         *)
(* scheduleTasks, listenLoop, setupConn) and p2p/peer.go (Peer.run,        *)
(* pingLoop, readLoop, handle, the send path and Disconnect).              *)
(*                                                                         *)
(* Every goroutine of the program is a process of the model, its position  *)
(* a "pc" variable; an unbuffered channel operation is one step taken by   *)
(* the sender and the receiver together.                                   *)
(***************************************************************************)
EXTENDS Integers, Sequences, FiniteSets, Bags, TLC

\* ---------------------------------------------------------------- bounds
MaxConn == 2            \* connections (accepted or dialled) in one run
MaxFrames == 2          \* frames a peer's reader receives
MaxWrite == 1           \* frames written on a peer's connection after the handshake
MaxPendingPeers == 1    \* Config.MaxPendingPeers, the admission pool size

\* ------------------------------------------------------- program constants
inboundConn == 1
outboundConn == 2
discAlreadyConnected == 10
discServerQuit == 11
ctlProtoCode == 1
baseProtoCode == 2

Conn == 1..MaxConn
\* the one connection of the runs that follow a single peer and its traffic
PeerConn == {1}
NoPeer == 0

\* the discovery snapshot (kadDB.GetCopy) and a NodeID that is not in it
NodeIDs == {"n1", "n2"}
UnknownID == "nx"
NoNode == "nil"

\* srv.Protocols, each protocol named by its capability string
Protocols == <<"tx/1", "chain/1">>
ProtoSet == {Protocols[i] : i \in 1..Len(Protocols)}

\* capability lists a remote endpoint may advertise
RemoteCaps == {<<"chain/1", "tx/1">>, <<"tx/1", "light/1">>}

\* control message codes
ctlMsgProtoHandshake == "handshake"
ctlMsgDiscCode == "disc"
ctlMsgPingCode == "ping"
ctlMsgPongCode == "pong"

VARIABLES
    conn,        \* conn[c]: "free" (not yet made), "open", "closed" (fd.Close / p.conn.Close)
    flags,       \* flags[c]: 0, inboundConn or outboundConn
    node,        \* peer.node
    hs,          \* position of setupConn(c): "none", "start", "lookup", "ret", "end"
    hsErr,       \* what setupConn returned: "none", "nil", or the failure
    peerCaps,    \* setupConn's local recvMsg.caps
    peerNodeID,  \* setupConn's local recvMsg.nodeID
    hsFrame,     \* setupConn's local recvWrapMsg: its (protoCode, msgCode)
    protoMap,    \* peer.protoMap: protoCode -> protocol
    capMap,      \* peer.capMap: capability string -> protoCode
    pc,          \* position of the goroutine of setupConn lines 348-354 and of Peer.run in it
    err,         \* p.err
    closed,      \* number of times p.closed was closed
    discClosed,  \* p.disc is closed
    discRecv,    \* the value run's select received from p.disc (line 72), 0 if none
    readPc,      \* position of readLoop
    pending,     \* the message readLoop is forwarding in handle
    nRead,       \* frames received by recvRawMsg in readLoop
    readErr,     \* the readErr channel of Peer.run (capacity 1)
    pingPc,      \* position of pingLoop
    pongs,       \* goroutines "go p.sendCtlMsg(ctlMsgPongCode)" that have not written yet
    wrote,       \* the frames written on the connection by the peer's senders (a bag)
    addCnt,      \* addCnt[c][s]: sends of peer c on protocol s's AddPeerCh
    delCnt,      \* delCnt[c][s]: sends of peer c on protocol s's DelPeerCh
    msgs,        \* msgs[c][s]: the messages of peer c put on protocol s's ReadMsgCh, in order
    srvPc,       \* position of Server.run
    peers,       \* srv.peers
    discTarget,  \* the peer Server.run is calling Disconnect on
    discReason,  \* the reason of that call
    toDisc,      \* the peers the loop of lines 162-164 has still to visit
    quit,        \* srv.quit is closed
    lsnPc,       \* position of listenLoop
    slots,       \* tokens in listenLoop's slots channel
    fault,       \* a goroutine panicked: the process is gone
    wire,        \* the bytes written on a connection and not yet read at its other end
    sentMsgs,    \* the frames sendRawMsg was called with on that connection, in order
    recvMsgs,    \* the frames recvRawMsg returned at the other end, in order
    wireErr,     \* recvRawMsg returned an error at the other end
    protoPc,     \* protoPc[g]: position of the g-th goroutine of Start lines 111-118
    protoOf      \* protoOf[g]: the protocol that goroutine reads from the variable proto

connVars == <<conn, flags, node>>
hsVars == <<hs, hsErr, peerCaps, peerNodeID, hsFrame, protoMap, capMap>>
runVars == <<pc, err, closed, discClosed, discRecv>>
readVars == <<readPc, pending, nRead, readErr>>
sendVars == <<pingPc, pongs, wrote>>
protoVars == <<addCnt, delCnt, msgs>>
srvVars == <<srvPc, peers, discTarget, discReason, toDisc, quit>>
lsnVars == <<lsnPc, slots>>
wireVars == <<wire, sentMsgs, recvMsgs, wireErr>>
protoTaskVars == <<protoPc, protoOf>>

vars == <<connVars, hsVars, runVars, readVars, sendVars, protoVars, srvVars, lsnVars, fault, wireVars,
          protoTaskVars>>

\* ------------------------------------------------------------------ helpers
Range(f) == {f[x] : x \in DOMAIN f}

\* the tokens listenLoop makes (lines 233-236)
maxAcceptConns == 50
tokens == IF MaxPendingPeers > 0 THEN MaxPendingPeers ELSE maxAcceptConns

\* the tables setupConn builds (lines 322-331): every protocol of srv.Protocols,
\* in the order of srv.Protocols, starting at baseProtoCode; peerCaps is not used
BuildProtoMap(protos, caps) ==
    [code \in baseProtoCode..(baseProtoCode + Len(protos) - 1) |-> protos[code - baseProtoCode + 1]]

BuildCapMap(protos, caps) ==
    [s \in {protos[i] : i \in 1..Len(protos)} |->
        baseProtoCode - 1 + CHOOSE i \in 1..Len(protos) : protos[i] = s /\ \A j \in (i+1)..Len(protos) : protos[j] # s]

Init ==
    /\ conn = [c \in Conn |-> "free"]
    /\ flags = [c \in Conn |-> 0]
    /\ node = [c \in Conn |-> NoNode]
    /\ hs = [c \in Conn |-> "none"]
    /\ hsErr = [c \in Conn |-> "none"]
    /\ peerCaps = [c \in Conn |-> <<>>]
    /\ peerNodeID = [c \in Conn |-> NoNode]
    /\ hsFrame = [c \in Conn |-> <<>>]
    /\ protoMap = [c \in Conn |-> <<>>]
    /\ capMap = [c \in Conn |-> <<>>]
    /\ pc = [c \in Conn |-> "none"]
    /\ err = [c \in Conn |-> "none"]
    /\ closed = [c \in Conn |-> 0]
    /\ discClosed = [c \in Conn |-> FALSE]
    /\ discRecv = [c \in Conn |-> 0]
    /\ readPc = [c \in Conn |-> "none"]
    /\ pending = [c \in Conn |-> <<>>]
    /\ nRead = [c \in Conn |-> 0]
    /\ readErr = [c \in Conn |-> "none"]
    /\ pingPc = [c \in Conn |-> "none"]
    /\ pongs = [c \in Conn |-> 0]
    /\ wrote = [c \in Conn |-> EmptyBag]
    /\ addCnt = [c \in Conn |-> [s \in ProtoSet |-> 0]]
    /\ delCnt = [c \in Conn |-> [s \in ProtoSet |-> 0]]
    /\ msgs = [c \in Conn |-> [s \in ProtoSet |-> <<>>]]
    /\ srvPc = "start"
    /\ peers = [n \in NodeIDs |-> NoPeer]
    /\ discTarget = NoPeer
    /\ discReason = 0
    /\ toDisc = {}
    /\ quit = FALSE
    /\ lsnPc = "slot"
    /\ slots = tokens
    /\ fault = FALSE
    /\ wire = <<>>
    /\ sentMsgs = <<>>
    /\ recvMsgs = <<>>
    /\ wireErr = FALSE
    /\ protoPc = [g \in 1..Len(Protocols) |-> "run"]
    /\ protoOf = [g \in 1..Len(Protocols) |-> "none"]

Alive == ~fault

\* ---------------------------------------------- the protocols' goroutines
\* Start lines 110-119: one goroutine for each protocol of srv.Protocols; it
\* calls proto.Run() and, when that returns, closes the three channels of
\* proto. The goroutines share the loop variable proto, so the g-th goroutine
\* reads from it the g-th protocol or a later one.
ProtoTasks == 1..Len(Protocols)

\* the channels of protocol s that have been closed
AddPeerChClosed(s) == \E g \in ProtoTasks : protoOf[g] = s /\ protoPc[g] \in {"closedAdd", "closedDel", "done"}
DelPeerChClosed(s) == \E g \in ProtoTasks : protoOf[g] = s /\ protoPc[g] \in {"closedDel", "done"}
ReadMsgChClosed(s) == \E g \in ProtoTasks : protoOf[g] = s /\ protoPc[g] = "done"

\* lines 113-114: proto.Run() returns and AddPeerCh is closed (a second close
\* of a channel panics)
protoCloseAddPeerCh(g, s) ==
    /\ Alive /\ protoPc[g] = "run"
    /\ \E j \in g..Len(Protocols) : Protocols[j] = s
    /\ IF AddPeerChClosed(s)
       THEN fault' = TRUE /\ UNCHANGED protoTaskVars
       ELSE /\ protoPc' = [protoPc EXCEPT ![g] = "closedAdd"]
            /\ protoOf' = [protoOf EXCEPT ![g] = s]
            /\ UNCHANGED fault
    /\ UNCHANGED <<connVars, hsVars, runVars, readVars, sendVars, protoVars, srvVars, lsnVars, wireVars>>

\* line 115: DelPeerCh is closed
protoCloseDelPeerCh(g) ==
    /\ Alive /\ protoPc[g] = "closedAdd"
    /\ protoPc' = [protoPc EXCEPT ![g] = "closedDel"]
    /\ UNCHANGED <<connVars, hsVars, runVars, readVars, sendVars, protoVars, srvVars, lsnVars, fault,
                   wireVars, protoOf>>

\* lines 116-117: ReadMsgCh is closed and the goroutine is done
protoCloseReadMsgCh(g) ==
    /\ Alive /\ protoPc[g] = "closedDel"
    /\ protoPc' = [protoPc EXCEPT ![g] = "done"]
    /\ UNCHANGED <<connVars, hsVars, runVars, readVars, sendVars, protoVars, srvVars, lsnVars, fault,
                   wireVars, protoOf>>

\* ------------------------------------------------------------ listenLoop
\* listenLoopTakeSlot going on to Accept without waiting for a token
listenLoopTakeSlotNoWait ==
    /\ Alive /\ lsnPc = "slot"
    /\ slots' = IF slots > 0 THEN slots - 1 ELSE slots
    /\ lsnPc' = "accept"
    /\ UNCHANGED <<connVars, hsVars, runVars, readVars, sendVars, protoVars, srvVars, fault>>
    /\ UNCHANGED <<wireVars, protoTaskVars>>

\* line 244: wait for a handshake slot before accepting
listenLoopTakeSlot ==
    /\ Alive /\ lsnPc = "slot" /\ slots > 0
    /\ slots' = slots - 1
    /\ lsnPc' = "accept"
    /\ UNCHANGED <<connVars, hsVars, runVars, readVars, sendVars, protoVars, srvVars, fault>>
    /\ UNCHANGED <<wireVars, protoTaskVars>>

\* lines 249-262: Accept returns a connection; its handshake goroutine starts
listenLoopAccept(c) ==
    /\ Alive /\ lsnPc = "accept" /\ conn[c] = "free"
    /\ conn' = [conn EXCEPT ![c] = "open"]
    /\ flags' = [flags EXCEPT ![c] = inboundConn]
    /\ hs' = [hs EXCEPT ![c] = "start"]
    /\ lsnPc' = "slot"
    /\ UNCHANGED <<node, hsErr, peerCaps, peerNodeID, hsFrame, protoMap, capMap, runVars, readVars,
                   sendVars, protoVars, srvVars, slots, fault>>
    /\ UNCHANGED <<wireVars, protoTaskVars>>

\* lines 253-255: Accept fails for good and listenLoop returns
listenLoopAcceptErr ==
    /\ Alive /\ lsnPc = "accept"
    /\ lsnPc' = "done"
    /\ UNCHANGED <<connVars, hsVars, runVars, readVars, sendVars, protoVars, srvVars, slots, fault>>
    /\ UNCHANGED <<wireVars, protoTaskVars>>

\* lines 260-261: setupConn has returned, its result is dropped and the
\* handshake goroutine gives its token back
listenLoopReturnSlot(c) ==
    /\ Alive /\ hs[c] = "ret" /\ flags[c] = inboundConn
    /\ slots' = slots + 1
    /\ hs' = [hs EXCEPT ![c] = "end"]
    /\ hsErr' = [hsErr EXCEPT ![c] = "none"]
    /\ UNCHANGED <<connVars, peerCaps, peerNodeID, hsFrame, protoMap, capMap, runVars, readVars,
                   sendVars, protoVars, srvVars, lsnPc, fault>>
    /\ UNCHANGED <<wireVars, protoTaskVars>>

\* line 191: the goroutine "go srv.setupConn(conn, outboundConn, node)" ends,
\* the result of setupConn is dropped
scheduleTasksReturn(c) ==
    /\ Alive /\ hs[c] = "ret" /\ flags[c] = outboundConn
    /\ hs' = [hs EXCEPT ![c] = "end"]
    /\ hsErr' = [hsErr EXCEPT ![c] = "none"]
    /\ UNCHANGED <<connVars, peerCaps, peerNodeID, hsFrame, protoMap, capMap, runVars, readVars,
                   sendVars, protoVars, srvVars, lsnVars, fault>>
    /\ UNCHANGED <<wireVars, protoTaskVars>>

\* ------------------------------------------------------------- setupConn
\* lines 297-317: a failure of Serialize, recvRawMsg or Deserialize closes fd
setupConnFail(c, why) ==
    /\ Alive /\ hs[c] = "start"
    /\ conn' = [conn EXCEPT ![c] = "closed"]
    /\ hsErr' = [hsErr EXCEPT ![c] = why]
    /\ hs' = [hs EXCEPT ![c] = "ret"]
    /\ UNCHANGED <<flags, node, peerCaps, peerNodeID, hsFrame, protoMap, capMap, runVars, readVars,
                   sendVars, protoVars, srvVars, lsnVars, fault>>
    /\ UNCHANGED <<wireVars, protoTaskVars>>

\* the (protoCode, msgCode) of the one frame a remote sends in the handshake:
\* the control handshake, another control frame, or a protocol's frame
HsFrames ==
    {<<ctlProtoCode, ctlMsgProtoHandshake>>, <<ctlProtoCode, ctlMsgPingCode>>,
     <<baseProtoCode, "app">>}

\* lines 297-331: the frames are exchanged, the payload of the received frame
\* head is decoded into caps and nid, and the tables are built; the protoCode
\* and the msgCode of the received frame are not looked at
setupConnTables(c, caps, nid, head) ==
    /\ Alive /\ hs[c] = "start"
    /\ hsFrame' = [hsFrame EXCEPT ![c] = head]
    /\ peerCaps' = [peerCaps EXCEPT ![c] = caps]
    /\ peerNodeID' = [peerNodeID EXCEPT ![c] = nid]
    /\ protoMap' = [protoMap EXCEPT ![c] = BuildProtoMap(Protocols, caps)]
    /\ capMap' = [capMap EXCEPT ![c] = BuildCapMap(Protocols, caps)]
    /\ hs' = [hs EXCEPT ![c] = "lookup"]
    /\ UNCHANGED <<connVars, hsErr, runVars, readVars, sendVars, protoVars, srvVars, lsnVars, fault>>
    /\ UNCHANGED <<wireVars, protoTaskVars>>

\* lines 333-342: the node of the peer
LookupNode(c) ==
    IF flags[c] = inboundConn /\ peerNodeID[c] \in NodeIDs THEN peerNodeID[c] ELSE NoNode

\* lines 343-356: no node: return the error; else start the peer's goroutine
setupConnFinish(c) ==
    /\ Alive /\ hs[c] = "lookup"
    /\ LET peerNode == LookupNode(c) IN
        IF peerNode = NoNode
        THEN /\ hsErr' = [hsErr EXCEPT ![c] = "unknownPeer"]
             /\ UNCHANGED <<node, pc>>
        ELSE /\ hsErr' = [hsErr EXCEPT ![c] = "nil"]
             /\ node' = [node EXCEPT ![c] = peerNode]
             /\ pc' = [pc EXCEPT ![c] = "addpeer"]
    /\ hs' = [hs EXCEPT ![c] = "ret"]
    /\ peerCaps' = [peerCaps EXCEPT ![c] = <<>>]
    /\ peerNodeID' = [peerNodeID EXCEPT ![c] = NoNode]
    /\ hsFrame' = [hsFrame EXCEPT ![c] = <<>>]
    /\ UNCHANGED <<conn, flags, protoMap, capMap, err, closed, discClosed, discRecv, readVars,
                   sendVars, protoVars, srvVars, lsnVars, fault>>
    /\ UNCHANGED <<wireVars, protoTaskVars>>

\* ---------------------------------------------------------------- Peer.run
\* the protocols of the peer: the values of p.protoMap
PeerProtos(c) == Range(protoMap[c])

\* lines 50-56: one send on AddPeerCh for each protocol of protoMap (a map, so
\* in any order); after the last one the reader and the pinger are started
peerRunAddPeerCh(c, s) ==
    /\ Alive /\ pc[c] = "announce"
    /\ s \in PeerProtos(c) /\ addCnt[c][s] = 0
    /\ ~AddPeerChClosed(s)
    /\ addCnt' = [addCnt EXCEPT ![c][s] = @ + 1]
    /\ IF \A t \in PeerProtos(c) \ {s} : addCnt[c][t] > 0
       THEN /\ pc' = [pc EXCEPT ![c] = "loop"]
            /\ readPc' = [readPc EXCEPT ![c] = "recv"]
            /\ pingPc' = [pingPc EXCEPT ![c] = "loop"]
       ELSE UNCHANGED <<pc, readPc, pingPc>>
    /\ UNCHANGED <<connVars, hsVars, err, closed, discClosed, discRecv, pending, nRead, readErr,
                   pongs, wrote, delCnt, msgs, srvVars, lsnVars, fault>>
    /\ UNCHANGED <<wireVars, protoTaskVars>>

\* lines 69-71: the reader's error ends the loop
peerRunReadErr(c) ==
    /\ Alive /\ pc[c] = "loop" /\ readErr[c] # "none"
    /\ err' = [err EXCEPT ![c] = readErr[c]]
    /\ readErr' = [readErr EXCEPT ![c] = "none"]
    /\ pc' = [pc EXCEPT ![c] = "close"]
    /\ UNCHANGED <<connVars, hsVars, closed, discClosed, discRecv, readPc, pending, nRead,
                   sendVars, protoVars, srvVars, lsnVars, fault>>
    /\ UNCHANGED <<wireVars, protoTaskVars>>

\* line 78: close(p.closed)
peerRunCloseClosed(c) ==
    /\ Alive /\ pc[c] = "close"
    /\ closed' = [closed EXCEPT ![c] = @ + 1]
    /\ pc' = [pc EXCEPT ![c] = "connClose"]
    /\ UNCHANGED <<connVars, hsVars, err, discClosed, discRecv, readVars, sendVars, protoVars,
                   srvVars, lsnVars, fault>>
    /\ UNCHANGED <<wireVars, protoTaskVars>>

\* line 79: p.conn.Close()
peerRunConnClose(c) ==
    /\ Alive /\ pc[c] = "connClose"
    /\ conn' = [conn EXCEPT ![c] = "closed"]
    /\ pc' = [pc EXCEPT ![c] = "closeDisc"]
    /\ UNCHANGED <<flags, node, hsVars, err, closed, discClosed, discRecv, readVars, sendVars,
                   protoVars, srvVars, lsnVars, fault>>
    /\ UNCHANGED <<wireVars, protoTaskVars>>

\* line 80: close(p.disc)
peerRunCloseDisc(c) ==
    /\ Alive /\ pc[c] = "closeDisc"
    /\ discClosed' = [discClosed EXCEPT ![c] = TRUE]
    /\ pc' = [pc EXCEPT ![c] = "wait"]
    /\ UNCHANGED <<connVars, hsVars, err, closed, discRecv, readVars, sendVars, protoVars,
                   srvVars, lsnVars, fault>>
    /\ UNCHANGED <<wireVars, protoTaskVars>>

\* line 81: p.wg.Wait() returns when the reader and the pinger are done
peerRunWait(c) ==
    /\ Alive /\ pc[c] = "wait"
    /\ readPc[c] = "done" /\ pingPc[c] = "done"
    /\ pc' = [pc EXCEPT ![c] = "remove"]
    /\ UNCHANGED <<connVars, hsVars, err, closed, discClosed, discRecv, readVars, sendVars,
                   protoVars, srvVars, lsnVars, fault>>
    /\ UNCHANGED <<wireVars, protoTaskVars>>

\* peerRunDelPeerCh leaving the loop of line 83 after its first send
peerRunDelPeerChFirstOnly(c, s) ==
    /\ Alive /\ pc[c] = "remove"
    /\ s \in PeerProtos(c) /\ delCnt[c][s] = 0
    /\ ~DelPeerChClosed(s)
    /\ delCnt' = [delCnt EXCEPT ![c][s] = @ + 1]
    /\ pc' = [pc EXCEPT ![c] = "delpeer"]
    /\ UNCHANGED <<connVars, hsVars, err, closed, discClosed, discRecv, readVars, sendVars,
                   addCnt, msgs, srvVars, lsnVars, fault>>
    /\ UNCHANGED <<wireVars, protoTaskVars>>

\* lines 83-87: one send on DelPeerCh for each protocol; then run returns and
\* the goroutine goes on to "srv.delpeer <- peer" (line 352)
peerRunDelPeerCh(c, s) ==
    /\ Alive /\ pc[c] = "remove"
    /\ s \in PeerProtos(c) /\ delCnt[c][s] = 0
    /\ ~DelPeerChClosed(s)
    /\ delCnt' = [delCnt EXCEPT ![c][s] = @ + 1]
    /\ IF \A t \in PeerProtos(c) \ {s} : delCnt[c][t] > 0
       THEN pc' = [pc EXCEPT ![c] = "delpeer"]
       ELSE UNCHANGED pc
    /\ UNCHANGED <<connVars, hsVars, err, closed, discClosed, discRecv, readVars, sendVars,
                   addCnt, msgs, srvVars, lsnVars, fault>>
    /\ UNCHANGED <<wireVars, protoTaskVars>>

\* ------------------------------------------------------------ the send path
\* sendRawMsg (lines 168-187): under wMutex, the header and the payload of
\* frame f = (protoCode, msgCode, payload) are written; ok says whether both writes
\* succeed, which they can only on an open connection. Nothing else is looked
\* at: not p.closed. A failure is returned to the caller and nothing more.
sendRawMsg(c, f, ok) ==
    /\ ok => (conn[c] = "open" /\ BagCardinality(wrote[c]) < MaxWrite)
    /\ wrote' = [wrote EXCEPT ![c] = IF ok THEN @ (+) SetToBag({f}) ELSE @]

\* sendCtlMsg (lines 156-166): a control frame with no payload; the result of
\* sendRawMsg is dropped
sendCtlMsg(c, msgCode, ok) == sendRawMsg(c, <<ctlProtoCode, msgCode, <<>>>>, ok)

\* SendMsg (lines 144-154), called by a protocol that was given the peer
SendMsg(c, s, ok) ==
    /\ Alive /\ addCnt[c][s] > 0
    /\ IF s \in DOMAIN capMap[c]
       THEN sendRawMsg(c, <<capMap[c][s], "app", <<"data">>>>, ok)
       ELSE UNCHANGED wrote
    /\ UNCHANGED <<connVars, hsVars, runVars, readVars, pingPc, pongs, protoVars,
                   srvVars, lsnVars, fault>>
    /\ UNCHANGED <<wireVars, protoTaskVars>>

\* pingLoop lines 95-97: the timer fires and a ping is sent (sendCtlMsg drops the error)
pingLoopPing(c, ok) ==
    /\ Alive /\ pingPc[c] = "loop"
    /\ sendCtlMsg(c, ctlMsgPingCode, ok)
    /\ UNCHANGED <<connVars, hsVars, runVars, readVars, pingPc, pongs, protoVars,
                   srvVars, lsnVars, fault>>
    /\ UNCHANGED <<wireVars, protoTaskVars>>

\* pingLoop lines 98-99: p.closed is closed
pingLoopExit(c) ==
    /\ Alive /\ pingPc[c] = "loop" /\ closed[c] > 0
    /\ pingPc' = [pingPc EXCEPT ![c] = "done"]
    /\ UNCHANGED <<connVars, hsVars, runVars, readVars, pongs, wrote, protoVars,
                   srvVars, lsnVars, fault>>
    /\ UNCHANGED <<wireVars, protoTaskVars>>

\* line 136: a goroutine started by handle sends the pong
pongSend(c, ok) ==
    /\ Alive /\ pongs[c] > 0
    /\ pongs' = [pongs EXCEPT ![c] = @ - 1]
    /\ sendCtlMsg(c, ctlMsgPongCode, ok)
    /\ UNCHANGED <<connVars, hsVars, runVars, readVars, pingPc, protoVars,
                   srvVars, lsnVars, fault>>
    /\ UNCHANGED <<wireVars, protoTaskVars>>

\* ----------------------------------------------------------------- readLoop
\* the frames a remote may send: (protoCode, msgCode)
Frames ==
    {<<ctlProtoCode, m>> : m \in {ctlMsgPingCode, ctlMsgPongCode, ctlMsgDiscCode}}
    \cup {<<p, "app">> : p \in baseProtoCode..(baseProtoCode + Len(Protocols))}

\* lines 107-111: recvRawMsg fails (the connection is closed, or the read
\* times out); the error goes into readErr, which has room for it
readLoopRecvErr(c) ==
    /\ Alive /\ readPc[c] = "recv"
    /\ readErr' = [readErr EXCEPT ![c] = "io"]
    /\ readPc' = [readPc EXCEPT ![c] = "done"]
    /\ UNCHANGED <<connVars, hsVars, runVars, pending, nRead, sendVars, protoVars,
                   srvVars, lsnVars, fault>>
    /\ UNCHANGED <<wireVars, protoTaskVars>>

\* handleCtl answering every control frame but disc with a pong
handleCtlAnyPing(f) ==
    IF f[1] # ctlProtoCode THEN "invalid"
    ELSE IF f[2] = ctlMsgDiscCode THEN "disc"
    ELSE "ping"

\* what handle (lines 119-141) does with a frame that is not forwarded:
\* "ping", "disc", "invalid" or "nop"
handleCtl(f) ==
    IF f[1] # ctlProtoCode THEN "invalid"
    ELSE IF f[2] = ctlMsgPingCode THEN "ping"
    ELSE IF f[2] = ctlMsgDiscCode THEN "disc"
    ELSE "nop"

\* lines 107-116 with handle: a frame is received; a frame of a protocol in
\* protoMap is to be forwarded, any other is handled at once
readLoopRecv(c, f) ==
    /\ Alive /\ readPc[c] = "recv" /\ conn[c] = "open" /\ nRead[c] < MaxFrames
    /\ nRead' = [nRead EXCEPT ![c] = @ + 1]
    /\ IF f[1] \in DOMAIN protoMap[c]
       THEN /\ pending' = [pending EXCEPT ![c] = <<protoMap[c][f[1]], nRead[c] + 1>>]
            /\ readPc' = [readPc EXCEPT ![c] = "handle"]
            /\ UNCHANGED <<readErr, pongs>>
       ELSE /\ UNCHANGED pending
            /\ LET what == handleCtl(f) IN
                /\ pongs' = [pongs EXCEPT ![c] = IF what = "ping" THEN @ + 1 ELSE @]
                /\ readErr' = [readErr EXCEPT ![c] =
                                  CASE what = "invalid" -> "invalidProto"
                                    [] what = "disc" -> "remoteDisc"
                                    [] OTHER -> @]
                /\ readPc' = [readPc EXCEPT ![c] =
                                  IF what \in {"invalid", "disc"} THEN "done" ELSE "recv"]
    /\ UNCHANGED <<connVars, hsVars, runVars, pingPc, wrote, protoVars, srvVars, lsnVars, fault>>
    /\ UNCHANGED <<wireVars, protoTaskVars>>

\* handleForward putting the message in front of those already on ReadMsgCh
handleForwardFirst(c) ==
    /\ Alive /\ readPc[c] = "handle"
    /\ ~ReadMsgChClosed(pending[c][1])
    /\ msgs' = [msgs EXCEPT ![c][pending[c][1]] = <<pending[c][2]>> \o @]
    /\ pending' = [pending EXCEPT ![c] = <<>>]
    /\ readPc' = [readPc EXCEPT ![c] = "recv"]
    /\ UNCHANGED <<connVars, hsVars, runVars, nRead, readErr, sendVars, addCnt, delCnt,
                   srvVars, lsnVars, fault>>
    /\ UNCHANGED <<wireVars, protoTaskVars>>

\* lines 122-124: the message goes onto the protocol's ReadMsgCh
handleForward(c) ==
    /\ Alive /\ readPc[c] = "handle"
    /\ ~ReadMsgChClosed(pending[c][1])
    /\ msgs' = [msgs EXCEPT ![c][pending[c][1]] = Append(@, pending[c][2])]
    /\ pending' = [pending EXCEPT ![c] = <<>>]
    /\ readPc' = [readPc EXCEPT ![c] = "recv"]
    /\ UNCHANGED <<connVars, hsVars, runVars, nRead, readErr, sendVars, addCnt, delCnt,
                   srvVars, lsnVars, fault>>
    /\ UNCHANGED <<wireVars, protoTaskVars>>

\* lines 125-126 and 113-114: p.closed is closed while forwarding: io.EOF
handleClosed(c) ==
    /\ Alive /\ readPc[c] = "handle" /\ closed[c] > 0
    /\ pending' = [pending EXCEPT ![c] = <<>>]
    /\ readErr' = [readErr EXCEPT ![c] = "EOF"]
    /\ readPc' = [readPc EXCEPT ![c] = "done"]
    /\ UNCHANGED <<connVars, hsVars, runVars, nRead, sendVars, protoVars, srvVars, lsnVars, fault>>
    /\ UNCHANGED <<wireVars, protoTaskVars>>

\* --------------------------------------------------------------- Disconnect
\* Disconnect (lines 217-222): a select of "p.disc <- reason" and "<-p.closed".
\* The send is taken by run's select (lines 72-74) when run is in its loop; the
\* receive is ready once p.closed is closed; and once p.disc is closed the send
\* is ready too and panics when the select takes it. With no case ready the
\* caller waits.
Disconnect(c, reason) ==
    \/ /\ pc[c] = "loop"
       /\ discRecv' = [discRecv EXCEPT ![c] = reason]
       /\ err' = [err EXCEPT ![c] = "disc"]
       /\ pc' = [pc EXCEPT ![c] = "close"]
       /\ UNCHANGED fault
    \/ /\ closed[c] > 0
       /\ UNCHANGED <<pc, err, discRecv, fault>>
    \/ /\ discClosed[c]
       /\ fault' = TRUE
       /\ UNCHANGED <<pc, err, discRecv>>

\* a case of Disconnect's select is ready
DisconnectReady(c) == pc[c] = "loop" \/ closed[c] > 0 \/ discClosed[c]

\* --------------------------------------------------------------- Server.run
FreeConns == {c \in Conn : conn[c] = "free"}
Mapped == {peers[n] : n \in NodeIDs} \ {NoPeer}

\* the dials scheduleTasks can make: an injection from some nodes to the first
\* free connections
Dials(S) ==
    {d \in UNION {[D -> FreeConns \cap S] : D \in SUBSET NodeIDs} :
        /\ \A n1, n2 \in DOMAIN d : d[n1] = d[n2] => n1 = n2
        /\ \A c \in Range(d) : \A b \in FreeConns : b < c => b \in Range(d)}

\* scheduleTasks (lines 173-192), called at the head of every iteration of
\* Server.run's loop (line 134): every node of the snapshot that is not in
\* srv.peers is dialled; dialled says which dials succeed and on which
\* connection, and each of those starts setupConn(conn, outboundConn, node)
scheduleTasks(dialled) ==
    /\ \A n \in DOMAIN dialled : peers'[n] = NoPeer
    /\ conn' = [c \in Conn |-> IF c \in Range(dialled) THEN "open" ELSE conn[c]]
    /\ flags' = [c \in Conn |-> IF c \in Range(dialled) THEN outboundConn ELSE flags[c]]
    /\ node' = [c \in Conn |->
                  IF c \in Range(dialled) THEN CHOOSE n \in DOMAIN dialled : dialled[n] = c
                  ELSE node[c]]
    /\ hs' = [c \in Conn |-> IF c \in Range(dialled) THEN "start" ELSE hs[c]]

\* lines 127-134: Server.run starts: the first scheduleTasks
serverRunStart(dialled) ==
    /\ Alive /\ srvPc = "start"
    /\ srvPc' = "select"
    /\ UNCHANGED peers
    /\ scheduleTasks(dialled)
    /\ UNCHANGED <<hsErr, peerCaps, peerNodeID, hsFrame, protoMap, capMap, runVars, readVars, sendVars,
                   protoVars, discTarget, discReason, toDisc, quit, lsnVars, fault>>
    /\ UNCHANGED <<wireVars, protoTaskVars>>

\* lines 136-137 and 134: the check timer fires; the next iteration
serverRunTimer(dialled) ==
    /\ Alive /\ srvPc = "select"
    /\ UNCHANGED <<srvPc, peers>>
    /\ scheduleTasks(dialled)
    /\ UNCHANGED <<hsErr, peerCaps, peerNodeID, hsFrame, protoMap, capMap, runVars, readVars, sendVars,
                   protoVars, discTarget, discReason, toDisc, quit, lsnVars, fault>>
    /\ UNCHANGED <<wireVars, protoTaskVars>>

\* serverRunAddpeer without the test of line 143: the new peer always goes into the map
serverRunAddpeerNoTest(c, dialled) ==
    /\ Alive /\ srvPc = "select" /\ pc[c] = "addpeer"
    /\ pc' = [pc EXCEPT ![c] = "announce"]
    /\ peers' = [peers EXCEPT ![node[c]] = c]
    /\ srvPc' = "select"
    /\ UNCHANGED <<discTarget, discReason>>
    /\ scheduleTasks(dialled)
    /\ UNCHANGED <<hsErr, peerCaps, peerNodeID, hsFrame, protoMap, capMap, err, closed, discClosed, discRecv,
                   readVars, sendVars, protoVars, toDisc, quit, lsnVars, fault>>
    /\ UNCHANGED <<wireVars, protoTaskVars>>

\* lines 141-149 and 134: an add-peer event; the sending goroutine goes on to
\* peer.run(). A peer whose NodeID is mapped is to be disconnected (line 146);
\* any other is put into the map, and the next iteration starts
serverRunAddpeer(c, dialled) ==
    /\ Alive /\ srvPc = "select" /\ pc[c] = "addpeer"
    /\ pc' = [pc EXCEPT ![c] = "announce"]
    /\ IF peers[node[c]] # NoPeer
       THEN /\ srvPc' = "dupDisc"
            /\ discTarget' = c
            /\ discReason' = discAlreadyConnected
            /\ UNCHANGED peers
            /\ dialled = <<>>
       ELSE /\ peers' = [peers EXCEPT ![node[c]] = c]
            /\ srvPc' = "select"
            /\ UNCHANGED <<discTarget, discReason>>
    /\ scheduleTasks(dialled)
    /\ UNCHANGED <<hsErr, peerCaps, peerNodeID, hsFrame, protoMap, capMap, err, closed, discClosed, discRecv,
                   readVars, sendVars, protoVars, toDisc, quit, lsnVars, fault>>
    /\ UNCHANGED <<wireVars, protoTaskVars>>

\* lines 146 and 134: the call c.Disconnect(discAlreadyConnected) is made and
\* returns; the next iteration
serverRunDisconnectDup(dialled) ==
    /\ Alive /\ srvPc = "dupDisc"
    /\ Disconnect(discTarget, discReason)
    /\ srvPc' = IF fault' THEN srvPc ELSE "select"
    /\ discTarget' = IF fault' THEN discTarget ELSE NoPeer
    /\ discReason' = IF fault' THEN discReason ELSE 0
    /\ UNCHANGED peers
    /\ fault' => dialled = <<>>
    /\ scheduleTasks(dialled)
    /\ UNCHANGED <<hsErr, peerCaps, peerNodeID, hsFrame, protoMap, capMap, closed, discClosed,
                   readVars, sendVars, protoVars, toDisc, quit, lsnVars>>
    /\ UNCHANGED <<wireVars, protoTaskVars>>

\* lines 150-158 and 134: a remove-peer event; the sending goroutine is done;
\* the next iteration
serverRunDelpeer(c, dialled) ==
    /\ Alive /\ srvPc = "select" /\ pc[c] = "delpeer"
    /\ pc' = [pc EXCEPT ![c] = "done"]
    /\ peers' = IF peers[node[c]] = c THEN [peers EXCEPT ![node[c]] = NoPeer] ELSE peers
    /\ UNCHANGED srvPc
    /\ scheduleTasks(dialled)
    /\ UNCHANGED <<hsErr, peerCaps, peerNodeID, hsFrame, protoMap, capMap, err, closed, discClosed, discRecv,
                   readVars, sendVars, protoVars, discTarget, discReason, toDisc, quit,
                   lsnVars, fault>>
    /\ UNCHANGED <<wireVars, protoTaskVars>>

\* lines 138-140: srv.quit is closed: leave the loop; the range of line 162
\* is over the peers of the map
serverRunQuit ==
    /\ Alive /\ srvPc = "select" /\ quit
    /\ srvPc' = "quit"
    /\ toDisc' = Mapped
    /\ UNCHANGED <<connVars, hsVars, runVars, readVars, sendVars, protoVars,
                   peers, discTarget, discReason, quit, lsnVars, fault>>
    /\ UNCHANGED <<wireVars, protoTaskVars>>

\* lines 162-163: the next peer of the range; after the last one, line 166
serverRunQuitNext ==
    /\ Alive /\ srvPc = "quit"
    /\ IF toDisc = {}
       THEN /\ srvPc' = IF Mapped = {} THEN "done" ELSE "drain"
            /\ UNCHANGED <<discTarget, discReason, toDisc>>
       ELSE \E p \in toDisc :
            /\ srvPc' = "quitDisc"
            /\ discTarget' = p
            /\ discReason' = discServerQuit
            /\ toDisc' = toDisc \ {p}
    /\ UNCHANGED <<connVars, hsVars, runVars, readVars, sendVars, protoVars,
                   peers, quit, lsnVars, fault>>
    /\ UNCHANGED <<wireVars, protoTaskVars>>

\* line 163: the call p.Disconnect(discServerQuit) is made and returns
serverRunDisconnectQuit ==
    /\ Alive /\ srvPc = "quitDisc"
    /\ Disconnect(discTarget, discReason)
    /\ srvPc' = IF fault' THEN srvPc ELSE "quit"
    /\ discTarget' = IF fault' THEN discTarget ELSE NoPeer
    /\ discReason' = IF fault' THEN discReason ELSE 0
    /\ UNCHANGED <<connVars, hsVars, closed, discClosed, readVars, sendVars, protoVars,
                   peers, toDisc, quit, lsnVars>>
    /\ UNCHANGED <<wireVars, protoTaskVars>>

\* lines 166-170: a remove-peer event while draining; with the map empty
\* Server.run returns
serverRunDrain(c) ==
    /\ Alive /\ srvPc = "drain" /\ pc[c] = "delpeer"
    /\ pc' = [pc EXCEPT ![c] = "done"]
    /\ peers' = [peers EXCEPT ![node[c]] = NoPeer]
    /\ srvPc' = IF \A n \in NodeIDs : peers'[n] = NoPeer THEN "done" ELSE "drain"
    /\ UNCHANGED <<connVars, hsVars, err, closed, discClosed, discRecv, readVars, sendVars, protoVars,
                   discTarget, discReason, toDisc, quit, lsnVars, fault>>
    /\ UNCHANGED <<wireVars, protoTaskVars>>

\* the server is told to stop: srv.quit is closed
Stop ==
    /\ Alive /\ ~quit
    /\ quit' = TRUE
    /\ UNCHANGED <<connVars, hsVars, runVars, readVars, sendVars, protoVars,
                   srvPc, peers, discTarget, discReason, toDisc, lsnVars, fault>>
    /\ UNCHANGED <<wireVars, protoTaskVars>>

\* the first connection not yet made
NextFree(c) == c \in FreeConns /\ \A b \in FreeConns : c <= b

\* the steps of the server, of the listener and of the peers that do not
\* depend on what the remote sends after the handshake; S is the set of
\* connections that can be made
Lifecycle(S) ==
    \/ listenLoopTakeSlot
    \/ \E c \in S : NextFree(c) /\ listenLoopAccept(c)
    \/ listenLoopAcceptErr
    \/ \E c \in Conn : listenLoopReturnSlot(c)
    \/ \E c \in Conn : scheduleTasksReturn(c)
    \/ \E c \in Conn, why \in {"serialize", "recv", "deserialize"} : setupConnFail(c, why)
    \/ \E c \in Conn, caps \in RemoteCaps, nid \in NodeIDs \cup {UnknownID}, head \in HsFrames :
            setupConnTables(c, caps, nid, head)
    \/ \E c \in Conn : setupConnFinish(c)
    \/ \E c \in Conn, s \in ProtoSet : peerRunAddPeerCh(c, s)
    \/ \E c \in Conn : peerRunReadErr(c)
    \/ \E c \in Conn : peerRunCloseClosed(c)
    \/ \E c \in Conn : peerRunConnClose(c)
    \/ \E c \in Conn : peerRunCloseDisc(c)
    \/ \E c \in Conn : peerRunWait(c)
    \/ \E c \in Conn, s \in ProtoSet : peerRunDelPeerCh(c, s)
    \/ \E c \in Conn : pingLoopExit(c)
    \/ \E c \in Conn : readLoopRecvErr(c)
    \/ \E d \in Dials(S) : serverRunStart(d)
    \/ \E d \in Dials(S) : serverRunTimer(d)
    \/ \E c \in Conn, d \in Dials(S) : serverRunAddpeer(c, d)
    \/ \E c \in Conn, d \in Dials(S) : serverRunDelpeer(c, d)
    \/ serverRunQuit
    \/ serverRunQuitNext
    \/ serverRunDisconnectQuit
    \/ \E c \in Conn : serverRunDrain(c)
    \/ Stop

\* the frames of a peer: received, forwarded, answered and sent
Traffic ==
    \/ \E c \in Conn, f \in Frames : readLoopRecv(c, f)
    \/ \E c \in Conn : handleForward(c)
    \/ \E c \in Conn : handleClosed(c)
    \/ \E c \in Conn, s \in ProtoSet, ok \in BOOLEAN : SendMsg(c, s, ok)
    \/ \E c \in Conn, ok \in BOOLEAN : pingLoopPing(c, ok)
    \/ \E c \in Conn, ok \in BOOLEAN : pongSend(c, ok)

\* the server with MaxConn connections, whose remotes send nothing after the
\* handshake and whose ping timers do not fire
Next ==
    \/ Lifecycle(Conn)
    \/ \E d \in Dials(Conn) : serverRunDisconnectDup(d)

Spec == Init /\ [][Next]_vars

\* the server with one connection and the traffic on it
NextPeer ==
    \/ Lifecycle(PeerConn)
    \/ Traffic

SpecPeer == Init /\ [][NextPeer]_vars

\* ------------------------------------------- sends on a protocol's channels
\* after the protocol's goroutine has closed them
\* lines 50-52: the send on a closed AddPeerCh panics
peerRunAddPeerChClosed(c, s) ==
    /\ Alive /\ pc[c] = "announce"
    /\ s \in PeerProtos(c) /\ addCnt[c][s] = 0
    /\ AddPeerChClosed(s)
    /\ fault' = TRUE
    /\ UNCHANGED <<connVars, hsVars, runVars, readVars, sendVars, protoVars, srvVars, lsnVars,
                   wireVars, protoTaskVars>>

\* lines 83-85: the send on a closed DelPeerCh panics
peerRunDelPeerChClosed(c, s) ==
    /\ Alive /\ pc[c] = "remove"
    /\ s \in PeerProtos(c) /\ delCnt[c][s] = 0
    /\ DelPeerChClosed(s)
    /\ fault' = TRUE
    /\ UNCHANGED <<connVars, hsVars, runVars, readVars, sendVars, protoVars, srvVars, lsnVars,
                   wireVars, protoTaskVars>>

\* lines 122-124: the select of handle takes the send on a closed ReadMsgCh,
\* which panics
handleForwardClosed(c) ==
    /\ Alive /\ readPc[c] = "handle"
    /\ ReadMsgChClosed(pending[c][1])
    /\ fault' = TRUE
    /\ UNCHANGED <<connVars, hsVars, runVars, readVars, sendVars, protoVars, srvVars, lsnVars,
                   wireVars, protoTaskVars>>

\* the frames of the protocols: (protoCode, msgCode)
AppFrames == {f \in Frames : f[1] # ctlProtoCode}

\* one connection whose remote sends frames of the protocols only, with the
\* protocols' goroutines: proto.Run() returns when the protocol chooses
NextProto ==
    \/ Lifecycle(PeerConn)
    \/ \E c \in Conn, f \in AppFrames : readLoopRecv(c, f)
    \/ \E c \in Conn : handleForward(c)
    \/ \E c \in Conn : handleClosed(c)
    \/ \E g \in ProtoTasks, s \in ProtoSet : protoCloseAddPeerCh(g, s)
    \/ \E g \in ProtoTasks : protoCloseDelPeerCh(g)
    \/ \E g \in ProtoTasks : protoCloseReadMsgCh(g)
    \/ \E c \in Conn, s \in ProtoSet : peerRunAddPeerChClosed(c, s)
    \/ \E c \in Conn, s \in ProtoSet : peerRunDelPeerChClosed(c, s)
    \/ \E c \in Conn : handleForwardClosed(c)

SpecProto == Init /\ [][NextProto]_vars

\* the steps of the three goroutines of peer c once it is running: Peer.run
\* from its loop on (with DelPeerCh taken by the protocols), readLoop and
\* handle without a consumer of ReadMsgCh, and pingLoop
peerRunSteps(c) ==
    \/ peerRunReadErr(c)
    \/ peerRunCloseClosed(c)
    \/ peerRunConnClose(c)
    \/ peerRunCloseDisc(c)
    \/ peerRunWait(c)
    \/ \E s \in ProtoSet : peerRunDelPeerCh(c, s)

readLoopExits(c) ==
    \/ conn[c] = "closed" /\ readLoopRecvErr(c)
    \/ handleClosed(c)

\* the server with one connection and the traffic on it, the goroutines of a
\* peer being scheduled fairly: Peer.run goes on whenever it can, a read on a
\* closed connection fails, a forward gives up once p.closed is closed, and
\* the pinger sees p.closed
SpecPeerFair ==
    /\ SpecPeer
    /\ \A c \in PeerConn :
        /\ WF_vars(peerRunSteps(c))
        /\ WF_vars(readLoopExits(c))
        /\ WF_vars(pingLoopExit(c))

\* ------------------------------------------------------- frames on the wire
\* One direction of a connection at the level of bytes: sendRawMsg at one end,
\* recvRawMsg at the other.
MaxLen == 2             \* bytes of a payload, and the largest value of a size field
MaxSent == 2            \* frames written on the connection

\* everything but the wire
peerVars == <<connVars, hsVars, runVars, readVars, sendVars, protoVars, srvVars, lsnVars, fault,
              protoTaskVars>>

\* the bytes payloads are made of, and the payloads
PayloadBytes == {0, 255}
Payloads == UNION {[1..k -> PayloadBytes] : k \in 0..MaxLen}

\* message codes (uint16), one of them with a high byte
MsgCodes == {0, 258}

\* binary.BigEndian.PutUint32, PutUint16, Uint32 and Uint16; a uint32 of 2^24
\* or more, which is longer than any wire here, is read as 2^24
PutUint32(n) == <<(n \div 16777216) % 256, (n \div 65536) % 256, (n \div 256) % 256, n % 256>>
PutUint16(n) == <<(n \div 256) % 256, n % 256>>
Uint32(b) == IF b[1] > 0 THEN 16777216 ELSE (b[2] * 256 + b[3]) * 256 + b[4]
Uint16(b) == b[1] * 256 + b[2]

\* the Messages a protocol can hand to SendMsg: size, msgCode and payload are
\* three fields of the struct, each set by whoever builds the Message
Messages == (0..MaxLen) \X MsgCodes \X Payloads

\* a msg: Message with its protoCode, as <<size, protoCode, msgCode, payload>>
msg(size, protoCode, msgCode, payload) == <<size, protoCode, msgCode, payload>>

\* sendRawMsg lines 171-184: the header (size, protoCode, msgCode of the msg,
\* big-endian) and then the whole of msgSend.payload
frameBytes(m) ==
    PutUint32(m[1]) \o PutUint16(m[2]) \o PutUint16(m[3]) \o m[4]

\* sendRawMsg (lines 168-187) with both writes succeeding
sendRawMsgWire(m) ==
    /\ Alive /\ ~wireErr /\ Len(sentMsgs) < MaxSent
    /\ wire' = wire \o frameBytes(m)
    /\ sentMsgs' = Append(sentMsgs, m)
    /\ UNCHANGED <<recvMsgs, wireErr, peerVars>>

\* SendMsg (lines 144-154): the protoCode of the protocol and the caller's
\* Message as it is
SendMsgWire(code, msgSend) ==
    sendRawMsgWire(msg(msgSend[1], code, msgSend[2], msgSend[3]))

\* sendCtlMsg (lines 156-166): size 0 and no payload
sendCtlMsgWire(msgCode) ==
    sendRawMsgWire(msg(0, ctlProtoCode, msgCode, <<>>))

\* setupConn lines 283-305: the handshake frame, size set to len(payload)
setupConnSendWire(msgCode, buffer) ==
    sendRawMsgWire(msg(Len(buffer), ctlProtoCode, msgCode, buffer))

\* recvRawMsg (lines 189-213): 8 bytes of header, then size bytes of payload
recvRawMsgWire ==
    /\ Alive /\ ~wireErr /\ Len(wire) >= 8
    /\ LET size == Uint32(SubSeq(wire, 1, 4)) IN
        /\ Len(wire) >= 8 + size
        /\ recvMsgs' = Append(recvMsgs,
                              msg(size, Uint16(SubSeq(wire, 5, 6)), Uint16(SubSeq(wire, 7, 8)),
                                  SubSeq(wire, 9, 8 + size)))
        /\ wire' = SubSeq(wire, 9 + size, Len(wire))
    /\ UNCHANGED <<sentMsgs, wireErr, peerVars>>

\* lines 192-195 and 206-208: io.ReadFull fails: the read deadline passes with
\* part of a frame on the wire
recvRawMsgWireErr ==
    /\ Alive /\ ~wireErr /\ Len(wire) > 0
    /\ IF Len(wire) < 8 THEN TRUE ELSE Len(wire) < 8 + Uint32(SubSeq(wire, 1, 4))
    /\ wireErr' = TRUE
    /\ wire' = <<>>
    /\ UNCHANGED <<sentMsgs, recvMsgs, peerVars>>

\* the frames of one direction of a connection, written and read
NextFrame ==
    \/ \E code \in DOMAIN BuildProtoMap(Protocols, <<>>), m \in Messages : SendMsgWire(code, m)
    \/ \E msgCode \in MsgCodes : sendCtlMsgWire(msgCode)
    \/ \E msgCode \in MsgCodes, buffer \in Payloads : setupConnSendWire(msgCode, buffer)
    \/ recvRawMsgWire
    \/ recvRawMsgWireErr

SpecFrame == Init /\ [][NextFrame]_vars

\* =================================================================== claims

\* the step in which Server.run takes the add-peer event of peer c
AddpeerTaken(c) == pc[c] = "addpeer" /\ pc'[c] = "announce"

\* C1: the peer map holds at most one Peer per NodeID, each under its own
\* NodeID; an add-peer event whose NodeID is mapped leaves the map as it is and
\* makes Server.run call Disconnect(discAlreadyConnected) on the new peer; an
\* add-peer event whose NodeID is not mapped puts exactly that peer in the map.
C1_OnePeerPerNodeID ==
    [][/\ \A n \in NodeIDs : peers'[n] # NoPeer => node'[peers'[n]] = n
       /\ \A c \in Conn : AddpeerTaken(c) =>
            IF peers[node[c]] # NoPeer
            THEN /\ peers' = peers
                 /\ srvPc' = "dupDisc" /\ discTarget' = c
                 /\ discReason' = discAlreadyConnected
            ELSE peers' = [peers EXCEPT ![node[c]] = c]]_vars

\* C1 witness: Server.run has rejected a second peer of a mapped NodeID
C1_Witness ==
    /\ srvPc = "dupDisc"
    /\ peers[node[discTarget]] \notin {NoPeer, discTarget}

\* C2: a peer is announced on a protocol's AddPeerCh only while it is the peer
\* the map holds for its NodeID (a rejected duplicate is never announced).
C2_AddedOnlyIfAdmitted ==
    [][\A c \in Conn, s \in ProtoSet :
          addCnt'[c][s] > addCnt[c][s] => peers[node[c]] = c]_vars

\* C3: for every peer and every protocol of its table, peer-removed is sent
\* only after peer-added, each at most once, and when Peer.run has returned
\* each has been sent exactly once.
C3_AddedThenRemovedOnce ==
    \A c \in Conn : \A s \in PeerProtos(c) :
        /\ addCnt[c][s] <= 1
        /\ delCnt[c][s] <= addCnt[c][s]
        /\ pc[c] \in {"delpeer", "done"} => (addCnt[c][s] = 1 /\ delCnt[c][s] = 1)

\* C3 witness: Peer.run of some peer has returned
C3_Witness == \E c \in Conn : pc[c] \in {"delpeer", "done"}

\* C4: the messages of a peer reach a protocol's ReadMsgCh in the order their
\* frames were read, none before the peer-added of that peer and none after
\* its peer-removed.
C4_MessagesInOrderBetweenAddedAndRemoved ==
    [][\A c \in Conn, s \in ProtoSet :
          /\ \A i, j \in 1..Len(msgs'[c][s]) : i < j => msgs'[c][s][i] < msgs'[c][s][j]
          /\ msgs'[c][s] # msgs[c][s] => (addCnt[c][s] > 0 /\ delCnt[c][s] = 0)]_vars

\* C4 witness: two messages of one peer have reached one protocol
C4_Witness == \E c \in Conn, s \in ProtoSet : Len(msgs[c][s]) = 2

\* C5: p.closed is closed once, and once it is closed no frame is written on
\* the peer's connection.
C5_NoSendAfterClosed ==
    [][\A c \in Conn :
          /\ closed'[c] <= 1
          /\ closed[c] > 0 => wrote'[c] = wrote[c]]_vars

\* the step in which the call of Disconnect made by Server.run ends
DisconnectEnds == srvPc \in {"dupDisc", "quitDisc"} /\ (srvPc' # srvPc \/ fault')

\* C6: a Disconnect on a peer whose p.closed is closed returns without a
\* panic and changes nothing of the peer.
C6_DisconnectOnClosedPeerIsSilent ==
    [][(DisconnectEnds /\ closed[discTarget] > 0) =>
          /\ ~fault'
          /\ pc'[discTarget] = pc[discTarget]
          /\ err'[discTarget] = err[discTarget]]_vars

\* C7: whenever Server.run is inside Disconnect, the call can return without
\* a step of the target peer's goroutines.
C7_DisconnectNeverWaits ==
    srvPc \in {"dupDisc", "quitDisc"} => DisconnectReady(discTarget)

\* the capability strings in lexicographic order
CapOrder == <<"chain/1", "light/1", "tx/1">>

\* the capabilities two endpoints share, in lexicographic order
CommonCaps(a, b) == SelectSeq(CapOrder, LAMBDA s : s \in Range(a) /\ s \in Range(b))

\* the capability to code table the handshake is to build from them
AgreedCapMap(a, b) ==
    LET common == CommonCaps(a, b) IN
    [s \in Range(common) |-> baseProtoCode - 1 + CHOOSE i \in 1..Len(common) : common[i] = s]

\* C8: the table built in the handshake holds exactly the capabilities both
\* endpoints have, with consecutive codes from baseProtoCode in lexicographic
\* order, and the remote, running the same code on its list, builds the same.
C8_TableIsSortedIntersection ==
    \A c \in Conn : hs[c] = "lookup" =>
        /\ capMap[c] = AgreedCapMap(Protocols, peerCaps[c])
        /\ BuildCapMap(peerCaps[c], Protocols) = capMap[c]

\* C9: when setupConn returns a failure of the receive, of the decoding or of
\* the lookup of an inbound NodeID, the connection is closed, no add-peer event
\* is on its way and nothing was sent on an AddPeerCh.
C9_FailedHandshakeClosesConn ==
    \A c \in Conn :
        (/\ hs[c] = "ret"
         /\ \/ hsErr[c] \in {"recv", "deserialize"}
            \/ hsErr[c] = "unknownPeer" /\ flags[c] = inboundConn) =>
        /\ conn[c] = "closed"
        /\ pc[c] = "none"
        /\ \A s \in ProtoSet : addCnt[c][s] = 0

\* C10: setupConn on an outbound connection whose handshake frames were
\* exchanged and decoded returns nil, with the dialled node as the peer's node
\* and the add-peer event on its way.
C10_OutboundHandshakeCompletes ==
    \A c \in Conn :
        (/\ hs[c] = "ret" /\ flags[c] = outboundConn
         /\ hsErr[c] \notin {"serialize", "recv", "deserialize"}) =>
        /\ hsErr[c] = "nil"
        /\ node[c] \in NodeIDs
        /\ pc[c] # "none"

\* the control frame that tells the remote why it is disconnected
discFrame(reason) == <<ctlProtoCode, ctlMsgDiscCode, <<reason>>>>

\* C11: a peer that Server.run disconnects with a reason code (10 for a
\* rejected duplicate, 11 for a peer of the map at shutdown) has its connection
\* closed only after a control disc frame carrying that code was written on it.
C11_DiscFrameBeforeClose ==
    \A c \in Conn :
        (conn[c] = "closed" /\ discRecv[c] \in {discAlreadyConnected, discServerQuit}) =>
            BagIn(discFrame(discRecv[c]), wrote[c])

\* the step in which the pong goroutine of peer c ends with its write failed
PongWriteFails(c) == pongs'[c] < pongs[c] /\ wrote'[c] = wrote[c]

\* C16: a failed write is a terminal event for the peer: when a write fails
\* while Peer.run is waiting in its select, either an error is there for the
\* select to take or run has left its loop.
C16_WriteFailureEndsPeer ==
    [][\A c \in Conn : (PongWriteFails(c) /\ pc[c] = "loop") =>
          (readErr'[c] # "none" \/ pc'[c] # "loop")]_vars

\* Server.run has returned and the goroutine of peer c (setupConn lines
\* 348-354, counted by srv.loopWG) waits to send on srv.addpeer or srv.delpeer,
\* which only Server.run receives from
Stranded(c) == srvPc = "done" /\ pc[c] \in {"addpeer", "delpeer"}

\* C12: after shutdown every goroutine that completed a handshake runs to
\* completion, so that a wait on srv.loopWG returns: none is left waiting to
\* hand its add-peer or remove-peer event to a Server.run that has returned.
C12_NoTaskStrandedAfterRun == \A c \in Conn : ~Stranded(c)

\* the inbound connections whose handshake goroutine (lines 259-262) has not
\* given its token back
InFlight == {c \in Conn : flags[c] = inboundConn /\ hs[c] \in {"start", "lookup", "ret"}}

\* the token listenLoop took at line 244 for the connection it has not yet accepted
TokenHeld == IF lsnPc \in {"accept", "done"} THEN 1 ELSE 0

\* C13: at most tokens inbound handshakes are in flight; every token is in the
\* pool, with the acceptor, or with exactly one handshake in flight (so each is
\* returned exactly once, on success or failure); and the acceptor is in Accept
\* only with a token it took from the pool.
C13_AdmissionPool ==
    /\ Cardinality(InFlight) <= tokens
    /\ slots + TokenHeld + Cardinality(InFlight) = tokens
    /\ slots >= 0

\* C13 witness: the pool is exhausted and the acceptor waits for a token while
\* a further connection could be accepted
C13_Witness ==
    /\ slots = 0 /\ lsnPc = "slot"
    /\ Cardinality(InFlight) = tokens
    /\ FreeConns # {}

\* C14: every frame written by sendRawMsg is read back by recvRawMsg at the
\* other end as an equal frame (size, protoCode, msgCode, payload), in the
\* order written, and no read fails on a frame boundary that was lost.
C14_FramesRoundTrip ==
    /\ ~wireErr
    /\ Len(recvMsgs) <= Len(sentMsgs)
    /\ \A i \in 1..Len(recvMsgs) : i <= Len(sentMsgs) => recvMsgs[i] = sentMsgs[i]

\* the step in which Server.run takes the remove-peer event of peer c
DelpeerTaken(c) == pc[c] = "delpeer" /\ pc'[c] = "done"

\* C15: a remove-peer event, in the running loop and in the drain alike, removes
\* the entry of its NodeID if the peer mapped there is the sender itself and
\* leaves the map as it is otherwise.
C15_RemoveOnlyOwnEntry ==
    [][\A c \in Conn : DelpeerTaken(c) =>
          peers' = IF peers[node[c]] = c
                   THEN [peers EXCEPT ![node[c]] = NoPeer]
                   ELSE peers]_vars

\* Peer.run of peer c has taken a terminal event and has not returned
Ending(c) == pc[c] \in {"close", "connClose", "closeDisc", "wait", "remove"}

\* C17: once a terminal event has reached Peer.run, run eventually returns,
\* and peer-removed is announced only when the reader and the pinger are done.
C17_RunReturnsAfterTerminalEvent ==
    /\ \A c \in Conn : Ending(c) ~> (pc[c] \in {"delpeer", "done"})
    /\ [](\A c \in Conn, s \in ProtoSet :
            delCnt[c][s] > 0 => (readPc[c] = "done" /\ pingPc[c] = "done"))

\* the reader of peer c goes on after the frame: no error, and back to recvRawMsg
KeepsRunning(c) == readErr'[c] = readErr[c] /\ readPc'[c] = "recv"

\* the reader of peer c ends with error e
Terminates(c, e) == readErr'[c] = e /\ readPc'[c] = "done"

\* C18: what the reader does with a received frame is determined by its
\* protoCode and msgCode: a protoCode of the table: the message is handed to
\* that protocol's ReadMsgCh and nothing else happens; else the control code
\* with ping: one pong goroutine more and the reader goes on, with pong: the
\* reader goes on and nothing else, with disc: the reader ends with the
\* remote-disconnect error; any other protoCode: it ends with the
\* invalid-frame error.
C18_DispatchByCodes ==
    [][\A c \in Conn, f \in Frames : readLoopRecv(c, f) =>
          IF f[1] \in DOMAIN protoMap[c]
          THEN /\ pending'[c][1] = protoMap[c][f[1]]
               /\ readPc'[c] = "handle"
               /\ readErr'[c] = readErr[c] /\ pongs'[c] = pongs[c]
          ELSE IF f[1] # ctlProtoCode
          THEN Terminates(c, "invalidProto") /\ pongs'[c] = pongs[c]
          ELSE CASE f[2] = ctlMsgPingCode -> KeepsRunning(c) /\ pongs'[c] = pongs[c] + 1
                 [] f[2] = ctlMsgPongCode -> KeepsRunning(c) /\ pongs'[c] = pongs[c]
                 [] f[2] = ctlMsgDiscCode -> Terminates(c, "remoteDisc") /\ pongs'[c] = pongs[c]]_vars

\* C18 witness: a reader has answered a ping and then ended on a disc frame
C18_Witness == \E c \in Conn : nRead[c] = 2 /\ readErr[c] = "remoteDisc" /\ pongs[c] = 1

\* C19: a handshake whose received frame is not the control frame with the
\* handshake code is rejected: setupConn creates no peer goroutine and no
\* add-peer event for it, and does not return nil.
C19_NonHandshakeFrameRejected ==
    [][\A c \in Conn :
          (hs[c] = "lookup" /\ hsFrame[c] # <<ctlProtoCode, ctlMsgProtoHandshake>>) =>
              (pc'[c] = "none" /\ hsErr'[c] # "nil")]_vars

\* a peer's run task or reader task is at a send on a channel of a protocol
\* that the protocol's goroutine has closed
SendsOnClosed(c) ==
    \/ pc[c] = "announce" /\ \E s \in PeerProtos(c) : addCnt[c][s] = 0 /\ AddPeerChClosed(s)
    \/ pc[c] = "remove" /\ \E s \in PeerProtos(c) : delCnt[c][s] = 0 /\ DelPeerChClosed(s)
    \/ readPc[c] = "handle" /\ ReadMsgChClosed(pending[c][1])

\* C20: a protocol's three queues are closed only after every peer has
\* delivered its peer-removed notification for the protocol, and no run or
\* reader task of a peer sends on a queue that has been closed
C20_QueuesClosedAfterPeers ==
    \A c \in Conn :
        /\ ~SendsOnClosed(c)
        /\ \A s \in PeerProtos(c) :
              (pc[c] # "none" /\ AddPeerChClosed(s)) => delCnt[c][s] > 0

====
